---- MODULE Spec2Model ----
(***************************************************************************)
(* Model of the error-chain library github.com/muonsoft/errors.            *)
(*                                                                         *)
(* Error values live in a heap: heap[p] is the object behind the pointer   *)
(* p, and the pointer 0 is the nil error.  A node only ever points to      *)
(* nodes allocated before it.  Message texts are sequences of one-token    *)
(* strings, so that concatenation and comparison are computed.             *)
(***************************************************************************)
EXTENDS Integers, Sequences, FiniteSets, TLC

VARIABLES heap, call, ret, logger, text, json, jsonErr, usedFormats, usedOptions, usedJoin,
          readers, found

vars == <<heap, call, ret, logger, text, json, jsonErr, usedFormats, usedOptions, usedJoin, readers, found>>

(***************************************************************************)
(* Bounds of the model.                                                    *)
(***************************************************************************)
MaxHeap == 4
MaxFormatLen == 3
MaxOptions == 2
MaxArgs == 2
MaxJoin == 2

(* the call stack of the code that calls the library: frames above the call site *)
CallDepth == 2

(***************************************************************************)
(* Go values.                                                              *)
(***************************************************************************)
nil == 0

Ptrs(h) == 1..Len(h)

RECURSIVE SeqsUpTo(_, _)
SeqsUpTo(S, n) ==
  IF n = 0 THEN {<<>>}
  ELSE LET shorter == SeqsUpTo(S, n - 1)
       IN  shorter \cup {Append(s, x) : s \in {t \in shorter : Len(t) = n - 1}, x \in S}

(* field values of the structured logging, options.go *)
StringField(key, value) == [type |-> "String", Key |-> key, Value |-> value]
(* an int value is kept as its decimal text *)
IntField(key, value) == [type |-> "Int", Key |-> key, Value |-> value]
(* a value of any type is named by what %v prints for it *)
ValueField(key, value) == [type |-> "Value", Key |-> key, Value |-> value]

Keys == {"k1", "k2"}

(* an Option is a closure over *Options; it is modelled by what it does when applied *)
SkipCaller == [op |-> "SkipCaller", skip |-> 1, key |-> "", value |-> ""]
SkipCallers(skip) == [op |-> "SkipCallers", skip |-> skip, key |-> "", value |-> ""]
String(key, value) == [op |-> "String", skip |-> 0, key |-> key, value |-> value]
Value(key, value) == [op |-> "Value", skip |-> 0, key |-> key, value |-> value]

OptionValues == {SkipCaller} \cup {String(k, "v") : k \in Keys}

(* the zero value of Options *)
Options == [skipCallers |-> 0, fields |-> <<>>]

AddField(o, field) == [o EXCEPT !.fields = Append(@, field)]

(* an Option as it would be if SkipCallers set the count instead of adding to it *)
ApplyOptionSkipSet(set, o) ==
  CASE set.op = "SkipCaller" -> [o EXCEPT !.skipCallers = @ + 1]
    [] set.op = "SkipCallers" -> [o EXCEPT !.skipCallers = set.skip]
    [] set.op = "String" -> AddField(o, StringField(set.key, set.value))
    [] set.op = "Value" -> AddField(o, ValueField(set.key, set.value))

(* applying one Option to the Options under construction *)
ApplyOption(set, o) ==
  CASE set.op = "SkipCaller" -> [o EXCEPT !.skipCallers = @ + 1]
    [] set.op = "SkipCallers" -> [o EXCEPT !.skipCallers = @ + set.skip]
    [] set.op = "String" -> AddField(o, StringField(set.key, set.value))
    [] set.op = "Value" -> AddField(o, ValueField(set.key, set.value))

RECURSIVE applyAll(_, _, _)
applyAll(options, i, opts) ==
  IF i > Len(options) THEN opts
  ELSE applyAll(options, i + 1, ApplyOption(options[i], opts))

(* newOptions as it would be if it started from the set that an earlier call *)
(* with the same options had filled                                          *)
newOptionsReused(options) == applyAll(options, 1, applyAll(options, 1, Options))

newOptions(options) == applyAll(options, 1, Options)

(***************************************************************************)
(* Stack capture.                                                          *)
(***************************************************************************)
depth == 32

(* the frames of the caller at call site c, innermost (the call site) first; a   *)
(* call site is named by the heap size at the call, which differs between any   *)
(* two capturing calls                                                          *)
CallStack(c) == [k \in 1..CallDepth |-> <<c, k>>]

(* the goroutine's stack when runtime.Callers runs: runtime.Callers, the    *)
(* capturing function, the entry point, then the caller's frames            *)
GoStack(cs) == <<<<0, 1>>, <<0, 2>>, <<0, 3>>>> \o cs

(* callers without the fixed maximum of frames *)
callersUnbounded(skip, cs) ==
  LET all == GoStack(cs)
      from == 3 + skip + 1
      n == IF Len(all) - from + 1 < 0 THEN 0 ELSE Len(all) - from + 1
  IN  [i \in 1..n |-> all[from + i - 1]]

callers(skip, cs) ==
  LET all == GoStack(cs)
      from == 3 + skip + 1
      n == IF Len(all) - from + 1 < 0 THEN 0
           ELSE IF Len(all) - from + 1 > depth THEN depth
           ELSE Len(all) - from + 1
  IN  [i \in 1..n |-> all[from + i - 1]]

newStack(skip, cs) == callers(skip, cs)

(***************************************************************************)
(* Frames.                                                                 *)
(***************************************************************************)
(* the Frame of program counter zero *)
ZeroFrame == <<0, 0>>

(* runtime.FuncForPC: no function for the zero program counter *)
NoFunc == <<>>
FuncForPC(f) == IF f = ZeroFrame THEN NoFunc ELSE f

(* Frame.File, Frame.Line and Frame.Name; a text is a sequence of tokens *)
FrameFile(f) ==
  IF FuncForPC(f) = NoFunc THEN <<"unknown">>
  ELSE <<"src", "/", "file" \o ToString(f[1]) \o ".go">>

FrameLine(f) == IF FuncForPC(f) = NoFunc THEN 0 ELSE 10 * f[1] + f[2]

FrameName(f) ==
  IF FuncForPC(f) = NoFunc THEN <<"unknown">>
  ELSE <<"github.com", "/", "pkg", ".", "func" \o ToString(f[2])>>

(* the text after the last token sep of a text, the whole text without one *)
RECURSIVE AfterLast(_, _)
AfterLast(t, sep) ==
  IF \A i \in 1..Len(t) : t[i] # sep THEN t
  ELSE AfterLast(Tail(t), sep)

(* the text after the first token sep of a text, the whole text without one *)
AfterFirst(t, sep) ==
  IF \A i \in 1..Len(t) : t[i] # sep THEN t
  ELSE LET i == CHOOSE k \in 1..Len(t) : t[k] = sep /\ \A j \in 1..(k - 1) : t[j] # sep
       IN  SubSeq(t, i + 1, Len(t))

funcname(name) == AfterFirst(AfterLast(name, "/"), ".")

(* path.Base of a file path *)
pathBase(file) == AfterLast(file, "/")

RECURSIVE FrameFormat(_, _, _)
FrameFormat(f, verb, plus) ==
  CASE verb = "s" -> IF plus THEN FrameName(f) \o <<"\n\t">> \o FrameFile(f)
                     ELSE pathBase(FrameFile(f))
    [] verb = "d" -> <<ToString(FrameLine(f))>>
    [] verb = "n" -> funcname(FrameName(f))
    [] verb = "v" -> FrameFormat(f, "s", plus) \o <<":">> \o FrameFormat(f, "d", plus)
    [] OTHER -> <<>>

(* Frame.String, which MarshalText returns *)
FrameString(f) ==
  IF FrameName(f) = <<"unknown">> THEN FrameName(f)
  ELSE FrameName(f) \o <<" ">> \o FrameFile(f) \o <<":", ToString(FrameLine(f))>>

(***************************************************************************)
(* Error nodes.                                                            *)
(***************************************************************************)
errorString(s) == [kind |-> "errorString", s |-> s]
wrapError(msg, err) == [kind |-> "wrapError", msg |-> msg, err |-> err]
wrapErrors(msg, errs) == [kind |-> "wrapErrors", msg |-> msg, errs |-> errs]
wrapped(err, fields) == [kind |-> "wrapped", wrapped |-> err, fields |-> fields]
stacked(w, stack) == [kind |-> "stacked", wrapped |-> w, stack |-> stack]
joinError(errs) == [kind |-> "joinError", errs |-> errs]
(* the error types of the tests of As: poser has an As method, errorT has none *)
poser(msg) == [kind |-> "poser", msg |-> msg]
errorT(s) == [kind |-> "errorT", s |-> s]
(* an error type of the calling program that implements LoggableError *)
ForbiddenError(action, userID) ==
  [kind |-> "ForbiddenError", Action |-> action, UserID |-> userID]

(* the inner error and the fields of a library node: stacked embeds *wrapped *)
Inner(n) == IF n.kind = "stacked" THEN n.wrapped.wrapped ELSE n.wrapped
Fields(n) == IF n.kind = "stacked" THEN n.wrapped.fields ELSE n.fields

(* what the LogFields method of a LoggableError node sets, in order *)
ForbiddenErrorLogFields(n) ==
  <<StringField("action", n.Action), IntField("userID", n.UserID)>>

LoggableFields(n) ==
  IF n.kind = "ForbiddenError" THEN ForbiddenErrorLogFields(n) ELSE Fields(n)

(* Unwrap as it would be if stacked did not get the Unwrap method of *wrapped *)
UnwrapNotPromoted(h, e) ==
  IF e = nil THEN nil
  ELSE CASE h[e].kind = "wrapError" -> h[e].err
         [] h[e].kind = "wrapped" -> Inner(h[e])
         [] OTHER -> nil

(* Unwrap as it would be if a join node unwrapped to its first member *)
UnwrapIntoJoin(h, e) ==
  IF e = nil THEN nil
  ELSE CASE h[e].kind = "wrapError" -> h[e].err
         [] h[e].kind \in {"wrapped", "stacked"} -> Inner(h[e])
         [] h[e].kind = "joinError" -> h[e].errs[1]
         [] OTHER -> nil

(* errors.Unwrap: only an Unwrap() error method counts *)
Unwrap(h, e) ==
  IF e = nil THEN nil
  ELSE CASE h[e].kind = "wrapError" -> h[e].err
         [] h[e].kind \in {"wrapped", "stacked"} -> Inner(h[e])
         [] OTHER -> nil

RECURSIVE Error(_, _)
RECURSIVE JoinText(_, _, _)
(* joinError.Error as it would be with the newline written after every member *)
JoinTextNewlineAfter(h, errs, i) ==
  IF i > Len(errs) THEN <<>>
  ELSE Error(h, errs[i]) \o <<"\n">> \o JoinText(h, errs, i + 1)

JoinText(h, errs, i) ==
  IF i > Len(errs) THEN <<>>
  ELSE (IF i > 1 THEN <<"\n">> ELSE <<>>) \o Error(h, errs[i]) \o JoinText(h, errs, i + 1)

(* Error as it would be if a library node added its field keys to the message *)
ErrorWithFields(h, e) ==
  CASE h[e].kind = "errorString" -> h[e].s
    [] h[e].kind \in {"wrapError", "wrapErrors"} -> h[e].msg
    [] h[e].kind \in {"wrapped", "stacked"} ->
         Error(h, Inner(h[e])) \o [i \in 1..Len(Fields(h[e])) |-> Fields(h[e])[i].Key]
    [] h[e].kind = "joinError" -> JoinText(h, h[e].errs, 1)
    [] h[e].kind = "ForbiddenError" -> <<"access denied">>
    [] h[e].kind = "poser" -> h[e].msg
    [] h[e].kind = "errorT" -> <<"errorT(", h[e].s, ")">>

Error(h, e) ==
  CASE h[e].kind = "errorString" -> h[e].s
    [] h[e].kind \in {"wrapError", "wrapErrors"} -> h[e].msg
    [] h[e].kind \in {"wrapped", "stacked"} -> Error(h, Inner(h[e]))
    [] h[e].kind = "joinError" -> JoinText(h, h[e].errs, 1)
    [] h[e].kind = "ForbiddenError" -> <<"access denied">>
    [] h[e].kind = "poser" -> h[e].msg
    [] h[e].kind = "errorT" -> <<"errorT(", h[e].s, ")">>

(* the interfaces a dynamic type implements *)
Implements(kind, T) ==
  CASE T = "wrapper" -> kind \in {"wrapped", "stacked"}
    [] T = "stackTracer" -> kind = "stacked"
    [] T = "LoggableError" -> kind \in {"wrapped", "stacked", "ForbiddenError"}
    [] OTHER -> FALSE

(* the type assertion err.(T): T is the dynamic type of err, or an interface *)
(* err implements                                                            *)
TypeAssert(h, err, T) == h[err].kind = T \/ Implements(h[err].kind, T)

(* the values As returns: an error of the chain, or a value an As method made; *)
(* Zero is the zero value of T                                                 *)
Zero == [ref |-> nil, val |-> ""]
ErrorOf(e) == [ref |-> e, val |-> ""]
Made(val) == [ref |-> nil, val |-> val]

(* the As method of poser, given a target that points to a T *)
poserAs(p, T) ==
  CASE T = "poser" -> [t |-> ErrorOf(p), ok |-> TRUE]
    [] T = "errorT" -> [t |-> Made("errorT{poser}"), ok |-> TRUE]
    [] T = "PathError" -> [t |-> Made("poserPathErr"), ok |-> TRUE]
    [] OTHER -> [t |-> Zero, ok |-> FALSE]

(* the As method of an error, if it has one *)
AsMethod(h, err, T) ==
  IF h[err].kind = "poser" THEN poserAs(err, T) ELSE [t |-> Zero, ok |-> FALSE]

RECURSIVE AsIntoJoin(_, _, _)
(* As as it would be if it followed errors.As of the standard library into *)
(* the members of a join                                                   *)
AsIntoJoin(h, err, T) ==
  IF err = nil THEN [t |-> Zero, ok |-> FALSE]
  ELSE IF TypeAssert(h, err, T) THEN [t |-> ErrorOf(err), ok |-> TRUE]
  ELSE IF AsMethod(h, err, T).ok THEN [t |-> AsMethod(h, err, T).t, ok |-> TRUE]
  ELSE AsIntoJoin(h, UnwrapIntoJoin(h, err), T)

RECURSIVE As(_, _, _)
As(h, err, T) ==
  IF err = nil THEN [t |-> Zero, ok |-> FALSE]
  ELSE IF TypeAssert(h, err, T) THEN [t |-> ErrorOf(err), ok |-> TRUE]
  ELSE IF AsMethod(h, err, T).ok THEN [t |-> AsMethod(h, err, T).t, ok |-> TRUE]
  ELSE As(h, Unwrap(h, err), T)

IsOfType(h, err, T) == As(h, err, T).ok

isWrapper(h, err) ==
  IF err = nil THEN FALSE ELSE As(h, err, "wrapper").ok

(* errors.Is of the standard library: depth-first over Unwrap() error and Unwrap() []error *)
RECURSIVE Is(_, _, _)
(* Is as it would be if joinError had no Unwrap() []error method *)
IsNoJoinUnwrap(h, err, target) ==
  IF err = nil \/ target = nil THEN err = target
  ELSE \/ err = target
       \/ CASE h[err].kind = "wrapErrors" ->
                 \E i \in 1..Len(h[err].errs) : Is(h, h[err].errs[i], target)
            [] OTHER -> Unwrap(h, err) # nil /\ Is(h, Unwrap(h, err), target)

Is(h, err, target) ==
  IF err = nil \/ target = nil THEN err = target
  ELSE \/ err = target
       \/ CASE h[err].kind \in {"wrapErrors", "joinError"} ->
                 \E i \in 1..Len(h[err].errs) : Is(h, h[err].errs[i], target)
            [] OTHER -> Unwrap(h, err) # nil /\ Is(h, Unwrap(h, err), target)

(***************************************************************************)
(* Wrap                                                                    *)
(***************************************************************************)
(* no JSON object produced *)
NoJSON == <<>>
(* the nil error of an encoder *)
NoError == "nil"

(* the goroutines reading a chain: none has started *)
MaxReaders == 2
Readers == 1..MaxReaders
ReaderOps == {"Log", "Sprintf", "Marshal"}
Idle == [op |-> "none", pc |-> "idle", err |-> nil, e |-> nil]
NoReaders == [th |-> [t \in Readers |-> Idle], sink |-> [t \in Readers |-> <<>>]]

(* no As or IsOfType has returned *)
NoFound == [as |-> [t |-> [ref |-> nil, val |-> ""], ok |-> FALSE], is |-> FALSE]

NoCall == [op |-> "none", err |-> nil, T |-> "", options |-> <<>>, message |-> <<>>, frame |-> ZeroFrame,
           depth |-> CallDepth,
           argsAndOptions |-> <<>>, errs |-> <<>>]

(* Wrap as it would be without the nil check *)
WrapResultNoNilCheck(h, err, options, cs) ==
  LET opts == newOptions(options)
  IN  IF isWrapper(h, err)
      THEN [heap |-> Append(h, wrapped(err, opts.fields)), ret |-> Len(h) + 1]
      ELSE [heap |-> Append(h, stacked([wrapped |-> err, fields |-> opts.fields],
                                       newStack(opts.skipCallers, cs))),
            ret |-> Len(h) + 1]

(* the result of a construction call: the heap after it and the returned pointer *)
WrapResult(h, err, options, cs) ==
  IF err = nil THEN [heap |-> h, ret |-> nil]
  ELSE LET opts == newOptions(options)
       IN  IF isWrapper(h, err)
           THEN [heap |-> Append(h, wrapped(err, opts.fields)), ret |-> Len(h) + 1]
           ELSE [heap |-> Append(h, stacked([wrapped |-> err, fields |-> opts.fields],
                                            newStack(opts.skipCallers, cs))),
                 ret |-> Len(h) + 1]

(* A call that allocates nothing leaves the heap as it was, so what can follow it *)
(* is what could follow the state before it: behaviours are continued only from *)
(* the initial state and from states a constructing call produced.              *)
Live ==
  \/ call.op = "none"
  \/ /\ call.op \in {"Wrap", "Errorf", "Join"}
     /\ ret = Len(heap)
     /\ call.op = "Join" => \A i \in 1..Len(call.errs) : call.errs[i] # ret

Wrap ==
  /\ Live
  /\ Len(heap) + 1 <= MaxHeap
  /\ \E err \in {nil} \cup Ptrs(heap), options \in SeqsUpTo(usedOptions, MaxOptions) :
       LET r == WrapResult(heap, err, options, CallStack(Len(heap) + 1))
       IN  /\ heap' = r.heap
           /\ ret' = r.ret
           /\ call' = [NoCall EXCEPT !.op = "Wrap", !.err = err, !.options = options]
  /\ logger' = <<>>
  /\ text' = <<>>
  /\ json' = NoJSON
  /\ jsonErr' = NoError
  /\ UNCHANGED <<usedFormats, usedOptions, usedJoin, readers, found>>

(***************************************************************************)
(* Errorf                                                                  *)
(***************************************************************************)
(* the values of the variadic ...interface{} parameter *)
NoOption == [op |-> "none", skip |-> 0, key |-> "", value |-> ""]
NilValue == [t |-> "nil", p |-> nil, o |-> NoOption]
StringValue == [t |-> "string", p |-> nil, o |-> NoOption]
ErrorValue(p) == IF p = nil THEN NilValue ELSE [t |-> "error", p |-> p, o |-> NoOption]
OptionValue(o) == [t |-> "Option", p |-> nil, o |-> o]

(* the characters format strings are made of: the directive marker, the    *)
(* verbs w and v (plain letters elsewhere), and the flag +                  *)
FormatChars == {"%", "w", "v", "+"}

(* the split as it would be if every Option, trailing or not, were taken out *)
splitEveryOption(argsAndOptions) ==
  LET isOption(v) == v.t = "Option"
      isArg(v) == v.t # "Option"
      options == SelectSeq(argsAndOptions, isOption)
  IN  [args |-> SelectSeq(argsAndOptions, isArg),
       options |-> [i \in 1..Len(options) |-> options[i].o]]

splitArgsAndOptions(argsAndOptions) ==
  LET RECURSIVE count(_, _)
      count(i, argsCount) ==
        IF i >= 1 /\ argsAndOptions[i].t = "Option"
        THEN count(i - 1, argsCount - 1)
        ELSE argsCount
      argsCount == count(Len(argsAndOptions), Len(argsAndOptions))
  IN  [args |-> SubSeq(argsAndOptions, 1, argsCount),
       options |-> [i \in 1..(Len(argsAndOptions) - argsCount) |->
                      argsAndOptions[argsCount + i].o]]

(* the scan of getErrorIndex from character k on; indices count from 0 *)
RECURSIVE scanErrorIndex(_, _, _, _)
scanErrorIndex(message, k, i, isFormat) ==
  IF k > Len(message) THEN -1
  ELSE LET s == message[k]
       IN  IF isFormat
           THEN IF s # "%"
                THEN IF s = "w" THEN i + 1
                     ELSE scanErrorIndex(message, k + 1, i + 1, FALSE)
                ELSE scanErrorIndex(message, k + 1, i, FALSE)
           ELSE IF s = "%" THEN scanErrorIndex(message, k + 1, i, TRUE)
                ELSE scanErrorIndex(message, k + 1, i, FALSE)

(* the scan as it would be if it went on to the last %w *)
RECURSIVE scanLastErrorIndex(_, _, _, _, _)
scanLastErrorIndex(message, k, i, isFormat, last) ==
  IF k > Len(message) THEN last
  ELSE LET s == message[k]
       IN  IF isFormat
           THEN IF s # "%"
                THEN scanLastErrorIndex(message, k + 1, i + 1, FALSE,
                                        IF s = "w" THEN i + 1 ELSE last)
                ELSE scanLastErrorIndex(message, k + 1, i, FALSE, last)
           ELSE scanLastErrorIndex(message, k + 1, i, s = "%", last)

getLastErrorIndex(message) == scanLastErrorIndex(message, 1, -1, FALSE, -1)

getErrorIndex(message) == scanErrorIndex(message, 1, -1, FALSE)

getArgError(message, args) ==
  LET index == getErrorIndex(message)
  IN  IF index >= 0 /\ index < Len(args) /\ args[index + 1].t = "error"
      THEN args[index + 1].p
      ELSE nil

(* ---- text output of the library's formatters (stringWriter, Format) ---- *)
stringWriterSet(field) == <<"\n", field.Key, ": ", field.Value>>

RECURSIVE LogFieldsText(_, _)
LogFieldsText(fields, i) ==
  IF i > Len(fields) THEN <<>>
  ELSE stringWriterSet(fields[i]) \o LogFieldsText(fields, i + 1)

RECURSIVE StackFormat(_, _)
StackFormat(st, i) ==
  IF i > Len(st) THEN <<>>
  ELSE <<"\n", ToString(st[i])>> \o StackFormat(st, i + 1)

(* the loop of wrapped.Format under %+v: fields of every LoggableError and  *)
(* the frames of every stackTracer, in chain order                          *)
RECURSIVE wrappedFormatLoop(_, _)
wrappedFormatLoop(h, err) ==
  IF err = nil THEN <<>>
  ELSE (IF Implements(h[err].kind, "LoggableError")
        THEN LogFieldsText(LoggableFields(h[err]), 1) ELSE <<>>)
       \o (IF Implements(h[err].kind, "stackTracer")
           THEN StackFormat(h[err].stack, 1) ELSE <<>>)
       \o wrappedFormatLoop(h, Unwrap(h, err))

wrappedFormat(h, e, plus) ==
  Error(h, e) \o (IF plus THEN wrappedFormatLoop(h, e) ELSE <<>>)

stackedFormat(h, e, plus) ==
  IF plus
  THEN Error(h, e) \o LogFieldsText(Fields(h[e]), 1) \o StackFormat(h[e].stack, 1)
  ELSE Error(h, e)

(* fmt's %v / %+v of an error value: its Format method when it has one *)
Format(h, e, plus) ==
  CASE h[e].kind = "wrapped" -> wrappedFormat(h, e, plus)
    [] h[e].kind = "stacked" -> stackedFormat(h, e, plus)
    [] OTHER -> Error(h, e)

(* ---- fmt.Errorf of the standard library ---- *)
TypeName(h, arg) ==
  CASE arg.t = "string" -> "string"
    [] arg.t = "Option" -> "errors.Option"
    [] arg.t = "error" -> h[arg.p].kind
    [] OTHER -> "<nil>"

printArg(h, arg, verb, plus) ==
  CASE arg.t = "nil" -> IF verb = "v" THEN <<"<nil>">> ELSE <<"%!", verb, "(<nil>)">>
    [] arg.t = "string" -> IF verb = "v" THEN <<"s">> ELSE <<"%!", verb, "(string=", "s", ")">>
    [] arg.t = "Option" -> IF verb = "v" THEN <<"0xfunc">>
                           ELSE <<"%!", verb, "(errors.Option=", "0xfunc", ")">>
    [] arg.t = "error" -> Format(h, arg.p, plus)

RECURSIVE extraArgs(_, _, _, _)
extraArgs(h, a, from, i) ==
  IF i > Len(a) THEN <<>>
  ELSE (IF i > from THEN <<", ">> ELSE <<>>)
       \o (IF a[i].t = "nil" THEN <<"<nil>">>
           ELSE <<TypeName(h, a[i]), "=">> \o printArg(h, a[i], "v", FALSE))
       \o extraArgs(h, a, from, i + 1)

RECURSIVE FlagsEnd(_, _)
FlagsEnd(format, j) ==
  IF j <= Len(format) /\ format[j] = "+" THEN FlagsEnd(format, j + 1) ELSE j

RECURSIVE doPrintf(_, _, _, _, _, _, _)
doPrintf(h, format, a, i, argNum, buf, wrappedErrs) ==
  IF i > Len(format)
  THEN [buf |-> IF argNum < Len(a)
                THEN buf \o <<"%!(EXTRA ">> \o extraArgs(h, a, argNum + 1, argNum + 1) \o <<")">>
                ELSE buf,
        wrappedErrs |-> wrappedErrs]
  ELSE IF format[i] # "%"
  THEN doPrintf(h, format, a, i + 1, argNum, Append(buf, format[i]), wrappedErrs)
  ELSE LET j == FlagsEnd(format, i + 1)
           plus == j > i + 1
       IN  IF j > Len(format)
           THEN [buf |-> Append(buf, "%!(NOVERB)"), wrappedErrs |-> wrappedErrs]
           ELSE LET verb == format[j]
                IN  CASE verb = "%" ->
                           doPrintf(h, format, a, j + 1, argNum, Append(buf, "%"), wrappedErrs)
                      [] verb # "%" /\ argNum >= Len(a) ->
                           doPrintf(h, format, a, j + 1, argNum,
                                    buf \o <<"%!", verb, "(MISSING)">>, wrappedErrs)
                      [] OTHER ->
                           doPrintf(h, format, a, j + 1, argNum + 1,
                                    buf \o printArg(h, a[argNum + 1], verb, plus),
                                    IF verb = "w" THEN Append(wrappedErrs, argNum)
                                    ELSE wrappedErrs)

RECURSIVE errorOperands(_, _, _)
errorOperands(a, wrappedErrs, i) ==
  IF i > Len(wrappedErrs) THEN <<>>
  ELSE (IF a[wrappedErrs[i] + 1].t = "error" THEN <<a[wrappedErrs[i] + 1].p>> ELSE <<>>)
       \o errorOperands(a, wrappedErrs, i + 1)

FmtErrorf(h, format, a) ==
  LET p == doPrintf(h, format, a, 1, 0, <<>>, <<>>)
  IN  CASE Len(p.wrappedErrs) = 0 -> errorString(p.buf)
        [] Len(p.wrappedErrs) = 1 -> wrapError(p.buf, a[p.wrappedErrs[1] + 1].p)
        [] OTHER -> wrapErrors(p.buf, errorOperands(a, p.wrappedErrs, 1))

ErrorfResult(h, message, argsAndOptions, cs) ==
  LET sp == splitArgsAndOptions(argsAndOptions)
      opts == newOptions(sp.options)
      h1 == Append(h, FmtErrorf(h, message, sp.args))
      err == Len(h1)
      argError == getArgError(message, sp.args)
  IN  IF isWrapper(h1, argError)
      THEN [heap |-> Append(h1, wrapped(err, opts.fields)), ret |-> Len(h1) + 1]
      ELSE [heap |-> Append(h1, stacked([wrapped |-> err, fields |-> opts.fields],
                                        newStack(opts.skipCallers, cs))),
            ret |-> Len(h1) + 1]

(* the values a caller passes after the format: nil, an error it holds, an option *)
ArgValues(h) == {NilValue} \cup {ErrorValue(p) : p \in Ptrs(h)}
                  \cup {OptionValue(o) : o \in usedOptions}

Formats == SeqsUpTo(FormatChars, MaxFormatLen)

Errorf ==
  /\ Live
  /\ Len(heap) + 2 <= MaxHeap
  /\ \E message \in usedFormats, argsAndOptions \in SeqsUpTo(ArgValues(heap), MaxArgs) :
       LET r == ErrorfResult(heap, message, argsAndOptions, CallStack(Len(heap) + 1))
       IN  /\ heap' = r.heap
           /\ ret' = r.ret
           /\ call' = [NoCall EXCEPT !.op = "Errorf", !.message = message,
                                     !.argsAndOptions = argsAndOptions]
  /\ logger' = <<>>
  /\ text' = <<>>
  /\ json' = NoJSON
  /\ jsonErr' = NoError
  /\ UNCHANGED <<usedFormats, usedOptions, usedJoin, readers, found>>

(***************************************************************************)
(* Join                                                                    *)
(***************************************************************************)
RECURSIVE nonNil(_, _)
nonNil(errs, i) ==
  IF i > Len(errs) THEN <<>>
  ELSE (IF errs[i] # nil THEN <<errs[i]>> ELSE <<>>) \o nonNil(errs, i + 1)

(* Join as it would be without the return for an argument list with no error *)
JoinResultNoEmptyCheck(h, errs, cs) ==
  LET members == nonNil(errs, 1)
      n == Len(members)
  IN  IF n = 1
      THEN IF isWrapper(h, members[1])
           THEN [heap |-> h, ret |-> members[1]]
           ELSE [heap |-> Append(h, stacked([wrapped |-> members[1], fields |-> <<>>],
                                            newStack(0, cs))),
                 ret |-> Len(h) + 1]
      ELSE LET h1 == Append(h, joinError(members))
           IN  [heap |-> Append(h1, stacked([wrapped |-> Len(h1), fields |-> <<>>],
                                            newStack(0, cs))),
                ret |-> Len(h1) + 1]

(* Join as it would be if several members were joined the way one is wrapped:  *)
(* without a snapshot when a member already has a library node                *)
JoinResultIdempotentMany(h, errs, cs) ==
  LET members == nonNil(errs, 1)
      n == Len(members)
  IN  IF n = 0 THEN [heap |-> h, ret |-> nil]
      ELSE IF n = 1
      THEN IF isWrapper(h, members[1])
           THEN [heap |-> h, ret |-> members[1]]
           ELSE [heap |-> Append(h, stacked([wrapped |-> members[1], fields |-> <<>>],
                                            newStack(0, cs))),
                 ret |-> Len(h) + 1]
      ELSE LET h1 == Append(h, joinError(members))
           IN  IF \E i \in 1..n : isWrapper(h, members[i])
               THEN [heap |-> Append(h1, wrapped(Len(h1), <<>>)), ret |-> Len(h1) + 1]
               ELSE [heap |-> Append(h1, stacked([wrapped |-> Len(h1), fields |-> <<>>],
                                                 newStack(0, cs))),
                     ret |-> Len(h1) + 1]

(* Join as it would be if a single member were wrapped without asking isWrapper *)
JoinResultAlwaysCaptures(h, errs, cs) ==
  LET members == nonNil(errs, 1)
      n == Len(members)
  IN  IF n = 0 THEN [heap |-> h, ret |-> nil]
      ELSE IF n = 1
      THEN [heap |-> Append(h, stacked([wrapped |-> members[1], fields |-> <<>>],
                                       newStack(0, cs))),
            ret |-> Len(h) + 1]
      ELSE LET h1 == Append(h, joinError(members))
           IN  [heap |-> Append(h1, stacked([wrapped |-> Len(h1), fields |-> <<>>],
                                            newStack(0, cs))),
                ret |-> Len(h1) + 1]

JoinResult(h, errs, cs) ==
  LET members == nonNil(errs, 1)
      n == Len(members)
  IN  IF n = 0 THEN [heap |-> h, ret |-> nil]
      ELSE IF n = 1
      THEN IF isWrapper(h, members[1])
           THEN [heap |-> h, ret |-> members[1]]
           ELSE [heap |-> Append(h, stacked([wrapped |-> members[1], fields |-> <<>>],
                                            newStack(0, cs))),
                 ret |-> Len(h) + 1]
      ELSE LET h1 == Append(h, joinError(members))
           IN  [heap |-> Append(h1, stacked([wrapped |-> Len(h1), fields |-> <<>>],
                                            newStack(0, cs))),
                ret |-> Len(h1) + 1]

Join ==
  /\ Live
  /\ \E errs \in SeqsUpTo({nil} \cup Ptrs(heap), usedJoin) :
       LET r == JoinResult(heap, errs, CallStack(Len(heap) + 1))
       IN  /\ Len(r.heap) <= MaxHeap
           /\ heap' = r.heap
           /\ ret' = r.ret
           /\ call' = [NoCall EXCEPT !.op = "Join", !.errs = errs]
  /\ logger' = <<>>
  /\ text' = <<>>
  /\ json' = NoJSON
  /\ jsonErr' = NoError
  /\ UNCHANGED <<usedFormats, usedOptions, usedJoin, readers, found>>

(***************************************************************************)
(* Log                                                                     *)
(***************************************************************************)
(* one call on the Logger given to Log *)
LoggerCall(m, key, value, trace, message) ==
  [m |-> m, key |-> key, value |-> value, trace |-> trace, message |-> message]

(* Field.Set: the setter of the field's type *)
FieldSet(field) == LoggerCall("Set" \o field.type, field.Key, field.Value, <<>>, <<>>)

(* wrapped.LogFields *)
LogFields(fields) == [i \in 1..Len(fields) |-> FieldSet(fields[i])]

StackTrace(n) == n.stack

RECURSIVE LogLoop(_, _)
LogLoop(h, e) ==
  IF e = nil THEN <<>>
  ELSE (IF Implements(h[e].kind, "stackTracer")
        THEN <<LoggerCall("SetStackTrace", "", "", StackTrace(h[e]), <<>>)>> ELSE <<>>)
       \o (IF Implements(h[e].kind, "LoggableError")
           THEN LogFields(LoggableFields(h[e])) ELSE <<>>)
       \o LogLoop(h, Unwrap(h, e))

(* Log as it would be if the message were committed before the traversal *)
LogCallsMessageFirst(h, err) ==
  IF err = nil THEN <<>>
  ELSE <<LoggerCall("Log", "", "", <<>>, Error(h, err))>> \o LogLoop(h, err)

LogCalls(h, err) ==
  IF err = nil THEN <<>>
  ELSE LogLoop(h, err) \o <<LoggerCall("Log", "", "", <<>>, Error(h, err))>>

Log ==
  /\ Live
  /\ \E err \in {nil, ret} \cup (IF call.op = "none" THEN Ptrs(heap) ELSE {}) :
       /\ logger' = LogCalls(heap, err)
       /\ call' = [NoCall EXCEPT !.op = "Log", !.err = err]
  /\ text' = <<>>
  /\ json' = NoJSON
  /\ jsonErr' = NoError
  /\ UNCHANGED <<heap, ret, usedFormats, usedOptions, usedJoin, readers, found>>

(* fmt.Sprintf("%+v", err) of a library error *)
Sprintf ==
  /\ Live
  /\ ret # nil
  /\ text' = Format(heap, ret, TRUE)
  /\ call' = [NoCall EXCEPT !.op = "Sprintf", !.err = ret, !.message = <<"%", "+", "v">>]
  /\ logger' = <<>>
  /\ json' = NoJSON
  /\ jsonErr' = NoError
  /\ UNCHANGED <<heap, ret, usedFormats, usedOptions, usedJoin, readers, found>>

(***************************************************************************)
(* JSON                                                                    *)
(***************************************************************************)
(* JSON values: a string is its text, a number its decimal text *)
JSONString(s) == [type |-> "string", v |-> s]
JSONNumber(n) == [type |-> "number", v |-> <<n>>]
JSONArray(a) == [type |-> "array", v |-> a]
(* a Go value that encoding/json has yet to encode *)
JSONValue(x) == [type |-> "value", v |-> <<x>>]

(* the values of the calling program given to Value: a struct, which          *)
(* encoding/json can encode, and a channel, which it cannot                   *)
Payloads == {"{1}", "0xc000"}
Unsupported(x) == x = "0xc000"

(* Frame.MarshalJSON: the struct of function, file and line as encoding/json  *)
(* writes it, file and line tagged omitempty                                  *)
FrameMarshalJSON(f) ==
  LET all == [function |-> FrameName(f), file |-> FrameFile(f), line |-> FrameLine(f)]
      keys == {"function"} \cup (IF FrameFile(f) # <<>> THEN {"file"} ELSE {})
                           \cup (IF FrameLine(f) # 0 THEN {"line"} ELSE {})
  IN  [k \in keys |-> all[k]]

(* StackTrace.MarshalJSON: the frames in order *)
StackTraceMarshalJSON(st) == JSONArray([i \in 1..Len(st) |-> FrameMarshalJSON(st[i])])

(* a setter that would keep the value a key already has *)
mapWriterSetIfAbsent(m, key, value) ==
  [x \in DOMAIN m \cup {key} |-> IF x \in DOMAIN m THEN m[x] ELSE value]

(* m[key] = value of mapWriter's setters *)
mapWriterSet(m, key, value) ==
  [x \in DOMAIN m \cup {key} |-> IF x = key THEN value ELSE m[x]]

(* LogFields with a mapWriter as the logger *)
RECURSIVE mapWriterLogFields(_, _, _)
mapWriterLogFields(m, fields, i) ==
  IF i > Len(fields) THEN m
  ELSE mapWriterLogFields(
         mapWriterSet(m, fields[i].Key,
                      CASE fields[i].type = "Int" -> JSONNumber(fields[i].Value)
                        [] fields[i].type = "Value" -> JSONValue(fields[i].Value)
                        [] OTHER -> JSONString(<<fields[i].Value>>)),
         fields, i + 1)

mapWriterSetStackTrace(m, trace) ==
  mapWriterSet(m, "stackTrace", StackTraceMarshalJSON(trace))

(* the loop of wrapped.MarshalJSON *)
RECURSIVE wrappedMarshalLoop(_, _, _)
wrappedMarshalLoop(h, err, data) ==
  IF err = nil THEN data
  ELSE LET d1 == IF Implements(h[err].kind, "LoggableError")
                 THEN mapWriterLogFields(data, LoggableFields(h[err]), 1) ELSE data
           d2 == IF Implements(h[err].kind, "stackTracer")
                 THEN mapWriterSetStackTrace(d1, StackTrace(h[err])) ELSE d1
       IN  wrappedMarshalLoop(h, Unwrap(h, err), d2)

wrappedMarshalJSON(h, e) ==
  wrappedMarshalLoop(h, e, mapWriterSet(<<>>, "error", JSONString(Error(h, e))))

stackedMarshalJSON(h, e) ==
  LET data == mapWriterSet(<<>>, "error", JSONString(Error(h, e)))
      d1 == mapWriterSetStackTrace(data, StackTrace(h[e]))
  IN  mapWriterLogFields(d1, Fields(h[e]), 1)

(* json.Marshal(data) as it would be if it left out what it cannot encode *)
jsonMarshalSkipUnsupported(data) ==
  [bytes |-> [k \in {x \in DOMAIN data : ~(data[x].type = "value" /\ Unsupported(data[x].v[1]))}
                |-> data[k]],
   err |-> NoError]

(* json.Marshal(data) of the map a MarshalJSON method has filled: an           *)
(* UnsupportedTypeError and no bytes when a value of the map has no encoding   *)
jsonMarshal(data) ==
  IF \E k \in DOMAIN data : data[k].type = "value" /\ Unsupported(data[k].v[1])
  THEN [bytes |-> NoJSON, err |-> "UnsupportedTypeError"]
  ELSE [bytes |-> data, err |-> NoError]

(* the map filled by the MarshalJSON method of the dynamic type *)
MarshalJSON(h, e) ==
  CASE h[e].kind = "wrapped" -> wrappedMarshalJSON(h, e)
    [] h[e].kind = "stacked" -> stackedMarshalJSON(h, e)

Marshal ==
  /\ Live
  /\ ret # nil
  /\ json' = jsonMarshal(MarshalJSON(heap, ret)).bytes
  /\ jsonErr' = jsonMarshal(MarshalJSON(heap, ret)).err
  /\ call' = [NoCall EXCEPT !.op = "Marshal", !.err = ret]
  /\ logger' = <<>>
  /\ text' = <<>>
  /\ UNCHANGED <<heap, ret, usedFormats, usedOptions, usedJoin, readers, found>>

(* a package-level sentinel error made with New *)
New(message) == errorString(message)

Init ==
  /\ heap = <<New(<<"a">>)>>
  /\ call = NoCall
  /\ ret = nil
  /\ logger = <<>>
  /\ text = <<>>
  /\ json = NoJSON
  /\ jsonErr = NoError
  /\ usedFormats = Formats
  /\ usedOptions = OptionValues
  /\ usedJoin = MaxJoin
  /\ readers = NoReaders
  /\ found = NoFound

(* a calling program with one or two sentinels that also uses formats with    *)
(* several %w verbs                                                           *)
MaxJoinMany == 3
MultiFormats == {<<>>, <<"%", "w">>, <<"%", "w", "%", "w">>}

InitJoin ==
  /\ heap \in {<<New(<<"a">>)>>, <<New(<<"a">>), New(<<"b">>)>>}
  /\ call = NoCall
  /\ ret = nil
  /\ logger = <<>>
  /\ text = <<>>
  /\ json = NoJSON
  /\ jsonErr = NoError
  /\ usedFormats = MultiFormats
  /\ usedOptions = OptionValues
  /\ usedJoin = MaxJoinMany
  /\ readers = NoReaders
  /\ found = NoFound

(* a calling program that has an error type of its own with fields, attaches  *)
(* fields under a key, under the key "error" and under a key of its own error *)
(* type, and uses short formats                                               *)
FieldFormats == SeqsUpTo({"%", "w"}, 2)
FieldOptions == {String("k1", "v"), String("error", "v"), String("action", "v")}

InitFields ==
  /\ heap \in {<<New(<<"a">>)>>, <<ForbiddenError("DoSomething", "1")>>}
  /\ call = NoCall
  /\ ret = nil
  /\ logger = <<>>
  /\ text = <<>>
  /\ json = NoJSON
  /\ jsonErr = NoError
  /\ usedFormats = FieldFormats
  /\ usedOptions = FieldOptions
  /\ usedJoin = MaxJoin
  /\ readers = NoReaders
  /\ found = NoFound

(* a calling program that attaches values of any type, one of them a channel,  *)
(* and a string under the same key                                            *)
ValueFormats == {<<>>, <<"%", "w">>, <<"%", "+", "w">>}
ValueOptions == {Value("k1", x) : x \in Payloads} \cup {String("k1", "v")}

InitValue ==
  /\ heap = <<New(<<"a">>)>>
  /\ call = NoCall
  /\ ret = nil
  /\ logger = <<>>
  /\ text = <<>>
  /\ json = NoJSON
  /\ jsonErr = NoError
  /\ usedFormats = ValueFormats
  /\ usedOptions = ValueOptions
  /\ usedJoin = MaxJoin
  /\ readers = NoReaders
  /\ found = NoFound

(* ---- a calling program that asks As and IsOfType about its errors ---- *)
AsTargets == {"wrapper", "stackTracer", "LoggableError", "errorString", "errorT", "poser", "PathError"}
AsFormats == {<<>>, <<"%", "w">>}
AsOptions == {String("k1", "v")}

InitAs ==
  /\ heap \in {<<poser(<<"p">>), errorT("T")>>, <<New(<<"a">>), poser(<<"p">>)>>}
  /\ call = NoCall
  /\ ret = nil
  /\ logger = <<>>
  /\ text = <<>>
  /\ json = NoJSON
  /\ jsonErr = NoError
  /\ usedFormats = AsFormats
  /\ usedOptions = AsOptions
  /\ usedJoin = MaxJoin
  /\ readers = NoReaders
  /\ found = NoFound

(* As[T](err) and IsOfType[T](err) *)
AsCall ==
  /\ Live
  /\ \E err \in {nil} \cup Ptrs(heap), T \in AsTargets :
       /\ found' = [as |-> As(heap, err, T), is |-> IsOfType(heap, err, T)]
       /\ call' = [NoCall EXCEPT !.op = "As", !.err = err, !.T = T]
  /\ UNCHANGED <<heap, ret, logger, text, json, jsonErr, usedFormats, usedOptions, usedJoin, readers>>

NextAs == Wrap \/ Errorf \/ Join \/ AsCall

SpecAs == InitAs /\ [][NextAs]_vars

(* ---- a calling program whose formats put other directives, %% and a second *)
(* %w around a %w ---- *)
ScanFormats ==
  {<<>>, <<"%", "w">>, <<"%", "%", "w">>, <<"%", "%", "%", "w">>, <<"%", "v", "%", "w">>,
   <<"%", "w", "%", "w">>, <<"%", "v", "w">>, <<"w", "%", "w">>, <<"%", "+", "w">>}

InitScan ==
  /\ heap = <<New(<<"a">>)>>
  /\ call = NoCall
  /\ ret = nil
  /\ logger = <<>>
  /\ text = <<>>
  /\ json = NoJSON
  /\ jsonErr = NoError
  /\ usedFormats = ScanFormats
  /\ usedOptions = {}
  /\ usedJoin = MaxJoin
  /\ readers = NoReaders
  /\ found = NoFound

NextScan == Wrap \/ Errorf

SpecScan == InitScan /\ [][NextScan]_vars

(* ---- goroutines that read one chain at the same time ---- *)
(* Each reader runs one of Log, fmt.Sprintf("%+v", err) and json.Marshal(err)  *)
(* on the error ret; one step is the part of the operation up to its loop, one *)
(* iteration of its loop, or the part after the loop.  What an operation       *)
(* writes goes to the sink of its call: the logger it was given, the           *)
(* fmt.State of its Sprintf, the mapWriter it made.                            *)
(* all readers writing to one sink *)
SinkShared(t) == 1

SinkOf(t) == t

StartReader(h, op, err) ==
  CASE op = "Log" -> [pc |-> "loop", out |-> <<>>]
    [] op = "Sprintf" ->
         IF h[err].kind = "wrapped" THEN [pc |-> "loop", out |-> Error(h, err)]
         ELSE [pc |-> "done", out |-> stackedFormat(h, err, TRUE)]
    [] op = "Marshal" ->
         IF h[err].kind = "wrapped"
         THEN [pc |-> "loop", out |-> mapWriterSet(<<>>, "error", JSONString(Error(h, err)))]
         ELSE [pc |-> "done", out |-> jsonMarshal(stackedMarshalJSON(h, err)).bytes]

(* one iteration of the loop of Log, wrapped.Format and wrapped.MarshalJSON on *)
(* the node e, out being what the sink holds                                   *)
LoopBody(h, op, e, out) ==
  CASE op = "Log" ->
         out \o (IF Implements(h[e].kind, "stackTracer")
                 THEN <<LoggerCall("SetStackTrace", "", "", StackTrace(h[e]), <<>>)>> ELSE <<>>)
             \o (IF Implements(h[e].kind, "LoggableError")
                 THEN LogFields(LoggableFields(h[e])) ELSE <<>>)
    [] op = "Sprintf" ->
         out \o (IF Implements(h[e].kind, "LoggableError")
                 THEN LogFieldsText(LoggableFields(h[e]), 1) ELSE <<>>)
             \o (IF Implements(h[e].kind, "stackTracer")
                 THEN StackFormat(h[e].stack, 1) ELSE <<>>)
    [] op = "Marshal" ->
         LET d1 == IF Implements(h[e].kind, "LoggableError")
                   THEN mapWriterLogFields(out, LoggableFields(h[e]), 1) ELSE out
         IN  IF Implements(h[e].kind, "stackTracer")
             THEN mapWriterSetStackTrace(d1, StackTrace(h[e])) ELSE d1

(* what follows the loop *)
AfterLoop(h, op, err, out) ==
  CASE op = "Log" -> Append(out, LoggerCall("Log", "", "", <<>>, Error(h, err)))
    [] op = "Sprintf" -> out
    [] op = "Marshal" -> jsonMarshal(out).bytes

(* the chains the readers are given: a fields-only node over a snapshot node,  *)
(* a snapshot node alone, and both over an error type of the caller            *)
BuiltChains ==
  LET h1 == WrapResult(<<New(<<"a">>)>>, 1, <<String("k1", "v")>>, CallStack(2)).heap
      h2 == WrapResult(h1, 2, <<String("k2", "v")>>, CallStack(3)).heap
      f1 == WrapResult(<<ForbiddenError("DoSomething", "1")>>, 1, <<>>, CallStack(2)).heap
      f2 == WrapResult(f1, 2, <<String("k1", "v")>>, CallStack(3)).heap
  IN  {h1, h2, f1, f2}

InitReaders ==
  /\ heap \in BuiltChains
  /\ ret = Len(heap)
  /\ call = NoCall
  /\ logger = <<>>
  /\ text = <<>>
  /\ json = NoJSON
  /\ jsonErr = NoError
  /\ usedFormats = {<<>>}
  /\ usedOptions = OptionValues
  /\ usedJoin = MaxJoin
  /\ readers = NoReaders
  /\ found = NoFound

(* a goroutine calls Log, Sprintf or json.Marshal on the chain *)
ReaderStart ==
  /\ \E t \in Readers, op \in ReaderOps :
       /\ readers.th[t].pc = "idle"
       /\ LET r == StartReader(heap, op, ret)
          IN  readers' = [th |-> [readers.th EXCEPT ![t] = [op |-> op, pc |-> r.pc, err |-> ret, e |-> ret]],
                          sink |-> [readers.sink EXCEPT ![SinkOf(t)] = r.out]]
  /\ UNCHANGED <<heap, call, ret, logger, text, json, jsonErr, usedFormats, usedOptions, usedJoin, found>>

(* a goroutine runs one iteration of its loop, or leaves the loop *)
ReaderStep ==
  /\ \E t \in Readers :
       LET r == readers.th[t]
           out == readers.sink[SinkOf(t)]
       IN  /\ r.pc = "loop"
           /\ IF r.e = nil
              THEN readers' = [th |-> [readers.th EXCEPT ![t].pc = "done"],
                               sink |-> [readers.sink EXCEPT ![SinkOf(t)] = AfterLoop(heap, r.op, r.err, out)]]
              ELSE readers' = [th |-> [readers.th EXCEPT ![t].e = Unwrap(heap, r.e)],
                               sink |-> [readers.sink EXCEPT ![SinkOf(t)] = LoopBody(heap, r.op, r.e, out)]]
  /\ UNCHANGED <<heap, call, ret, logger, text, json, jsonErr, usedFormats, usedOptions, usedJoin, found>>

NextReaders == ReaderStart \/ ReaderStep

SpecReaders == InitReaders /\ [][NextReaders]_vars

(* ---- a calling program that calls Wrap and Errorf from call stacks of any   *)
(* depth with skip options ---- *)
MaxDepth == 34
SmallSkip == 2
BigSkip == 33
MaxSkipOptions == 3
SkipOptions == {SkipCaller, SkipCallers(SmallSkip), SkipCallers(BigSkip), String("k1", "v")}

(* the call stack of a call site c that is d frames deep *)
CallStackOfDepth(c, d) == [k \in 1..d |-> <<c, k>>]

InitSkip ==
  /\ heap = <<New(<<"a">>)>>
  /\ call = NoCall
  /\ ret = nil
  /\ logger = <<>>
  /\ text = <<>>
  /\ json = NoJSON
  /\ jsonErr = NoError
  /\ usedFormats = {<<>>}
  /\ usedOptions = SkipOptions
  /\ usedJoin = MaxJoin
  /\ readers = NoReaders
  /\ found = NoFound

(* Wrap(err, options...) of the sentinel from a call stack d frames deep *)
WrapAt ==
  /\ call.op = "none"
  /\ \E d \in 0..MaxDepth, options \in SeqsUpTo(usedOptions, MaxSkipOptions) :
       LET r == WrapResult(heap, Len(heap), options, CallStackOfDepth(Len(heap) + 1, d))
       IN  /\ heap' = r.heap
           /\ ret' = r.ret
           /\ call' = [NoCall EXCEPT !.op = "Wrap", !.err = Len(heap), !.options = options,
                                     !.depth = d]
  /\ logger' = <<>>
  /\ text' = <<>>
  /\ json' = NoJSON
  /\ jsonErr' = NoError
  /\ UNCHANGED <<usedFormats, usedOptions, usedJoin, readers, found>>

(* Errorf("", options...) from a call stack d frames deep *)
ErrorfAt ==
  /\ call.op = "none"
  /\ \E d \in 0..MaxDepth, options \in SeqsUpTo(usedOptions, MaxSkipOptions) :
       LET argsAndOptions == [i \in 1..Len(options) |-> OptionValue(options[i])]
           r == ErrorfResult(heap, <<>>, argsAndOptions, CallStackOfDepth(Len(heap) + 1, d))
       IN  /\ heap' = r.heap
           /\ ret' = r.ret
           /\ call' = [NoCall EXCEPT !.op = "Errorf", !.argsAndOptions = argsAndOptions,
                                     !.options = options, !.depth = d]
  /\ logger' = <<>>
  /\ text' = <<>>
  /\ json' = NoJSON
  /\ jsonErr' = NoError
  /\ UNCHANGED <<usedFormats, usedOptions, usedJoin, readers, found>>

NextSkip == WrapAt \/ ErrorfAt

SpecSkip == InitSkip /\ [][NextSkip]_vars

(* ---- a calling program that formats and encodes Frame values ---- *)
MaxFrame == 3
Frames == {ZeroFrame} \cup {<<c, k>> : c \in 0..MaxFrame, k \in 1..MaxFrame}
FrameVerbs == {"s", "d", "n", "v"}

(* fmt.Sprintf("%s", f), ("%+s", f) and so on *)
SprintfFrame ==
  /\ \E f \in Frames, verb \in FrameVerbs, plus \in BOOLEAN :
       /\ text' = FrameFormat(f, verb, plus)
       /\ call' = [NoCall EXCEPT !.op = "SprintfFrame", !.frame = f,
                                 !.message = IF plus THEN <<"%", "+", verb>> ELSE <<"%", verb>>]
  /\ logger' = <<>>
  /\ json' = NoJSON
  /\ jsonErr' = NoError
  /\ UNCHANGED <<heap, ret, usedFormats, usedOptions, usedJoin, readers, found>>

(* f.MarshalText() *)
MarshalTextFrame ==
  /\ \E f \in Frames :
       /\ text' = FrameString(f)
       /\ call' = [NoCall EXCEPT !.op = "MarshalTextFrame", !.frame = f]
  /\ logger' = <<>>
  /\ json' = NoJSON
  /\ jsonErr' = NoError
  /\ UNCHANGED <<heap, ret, usedFormats, usedOptions, usedJoin, readers, found>>

(* json.Marshal(f) *)
MarshalFrame ==
  /\ \E f \in Frames :
       /\ json' = FrameMarshalJSON(f)
       /\ call' = [NoCall EXCEPT !.op = "MarshalFrame", !.frame = f]
  /\ jsonErr' = NoError
  /\ logger' = <<>>
  /\ text' = <<>>
  /\ UNCHANGED <<heap, ret, usedFormats, usedOptions, usedJoin, readers, found>>

NextFrame == SprintfFrame \/ MarshalTextFrame \/ MarshalFrame

SpecFrame == Init /\ [][NextFrame]_vars

Next == Wrap \/ Errorf \/ Join \/ Log \/ Sprintf \/ Marshal

Spec == Init /\ [][Next]_vars

SpecJoin == InitJoin /\ [][Next]_vars

SpecFields == InitFields /\ [][Next]_vars

SpecValue == InitValue /\ [][Next]_vars

(***************************************************************************)
(* Properties.                                                             *)
(***************************************************************************)
(* the chain of err: err, Unwrap(err), Unwrap(Unwrap(err)), ... *)
RECURSIVE Chain(_, _)
Chain(h, err) == IF err = nil THEN <<>> ELSE <<err>> \o Chain(h, Unwrap(h, err))

InChain(h, err, p) == \E i \in 1..Len(Chain(h, err)) : Chain(h, err)[i] = p

(* assertSingleStack's count: the nodes of the chain that carry a snapshot *)
StackCount(h, err) ==
  Cardinality({i \in 1..Len(Chain(h, err)) : Implements(h[Chain(h, err)[i]].kind, "stackTracer")})

Constructed == call.op \in {"Wrap", "Errorf", "Join"} /\ ret # nil

(* C1: every error built by Wrap, Errorf and Join has exactly one node with a  *)
(* stack snapshot in its Unwrap chain.                                         *)
C1_ExactlyOneStack == Constructed => StackCount(heap, ret) = 1

(* C2: no construction call yields a chain with two or more snapshots: a call  *)
(* that captured a snapshot wraps an error with no snapshot in its chain.      *)
C2_AtMostOneStack ==
  Constructed =>
    /\ StackCount(heap, ret) <= 1
    /\ (ret = Len(heap) /\ heap[ret].kind = "stacked")
         => ~As(heap, Unwrap(heap, ret), "stackTracer").ok

(* C3: Wrap(nil, options...) returns nil and allocates no node, whatever the   *)
(* options are.                                                                *)
C3_WrapNilReturnsNil ==
  [][(call'.op = "Wrap" /\ call'.err = nil) => (ret' = nil /\ heap' = heap)]_vars

C3_Witness ==
  /\ call.op = "Wrap" /\ call.err = nil /\ ret = nil
  /\ \E i, j \in 1..Len(call.options) :
       call.options[i].op = "SkipCaller" /\ call.options[j].op = "String"

(* the snapshot a chain exposes: that of the first node that carries one *)
ExposedStack(h, err) ==
  LET s == As(h, err, "stackTracer").t.ref
  IN  IF s = nil THEN [carried |-> FALSE, stack |-> <<>>]
      ELSE [carried |-> TRUE, stack |-> StackTrace(h[s])]

(* the errors the last construction call was given *)
Operands ==
  CASE call.op = "Wrap" -> {call.err} \ {nil}
    [] call.op = "Errorf" ->
         {call.argsAndOptions[i].p :
            i \in {j \in 1..Len(call.argsAndOptions) : call.argsAndOptions[j].t = "error"}}
    [] OTHER -> {}

(* C4: a Wrap or Errorf-with-%w applied on top of a chain that carries a       *)
(* snapshot leaves it unchanged: the result exposes the snapshot of the chain  *)
(* it wraps, whatever skip options the later call is given.                    *)
C4_SnapshotUnchanged ==
  (Constructed /\ ret = Len(heap)) =>
    \A p \in Operands :
      (InChain(heap, ret, p) /\ StackCount(heap, p) >= 1)
        => ExposedStack(heap, ret) = ExposedStack(heap, p)

(* C5: Wrap(err, options...).Error() equals err.Error() for every non-nil err. *)
C5_WrapKeepsMessage ==
  (call.op = "Wrap" /\ call.err # nil) => Error(heap, ret) = Error(heap, call.err)

C5_Witness ==
  /\ call.op = "Wrap" /\ call.err # nil
  /\ Len(Chain(heap, ret)) >= 4
  /\ \A i \in 1..3 :
       /\ heap[Chain(heap, ret)[i]].kind \in {"wrapped", "stacked"}
       /\ Len(Fields(heap[Chain(heap, ret)[i]])) >= 1

(* C6: one Unwrap step on Wrap(err, options...) yields err, and the result     *)
(* matches (Is) every target that err matches.                                 *)
C6_WrapUnwrapsToErr ==
  (call.op = "Wrap" /\ call.err # nil) =>
    /\ Unwrap(heap, ret) = call.err
    /\ \A target \in Ptrs(heap) : Is(heap, call.err, target) => Is(heap, ret, target)

C6_Witness ==
  /\ call.op = "Wrap" /\ call.err # nil
  /\ heap[ret].kind = "stacked"
  /\ heap[call.err].kind = "wrapError"
  /\ Len(call.options) >= 1
  /\ \E target \in Ptrs(heap) \ {ret, call.err} : Is(heap, ret, target)

(* the length of the maximal trailing run of Option values *)
RECURSIVE TrailingOptions(_)
TrailingOptions(values) ==
  IF values = <<>> \/ values[Len(values)].t # "Option" THEN 0
  ELSE 1 + TrailingOptions(SubSeq(values, 1, Len(values) - 1))

RECURSIVE FieldsOfOptions(_, _)
FieldsOfOptions(values, i) ==
  IF i > Len(values) THEN <<>>
  ELSE (IF values[i].o.op = "String"
        THEN <<StringField(values[i].o.key, values[i].o.value)>> ELSE <<>>)
       \o FieldsOfOptions(values, i + 1)

(* C7: Errorf(format, a1..an, o1..om) has the message of fmt.Errorf(format,    *)
(* a1..an), matches the same targets as that error, and carries the fields of  *)
(* o1..om in the order given.                                                  *)
C7_ErrorfLikeFmtErrorf ==
  call.op = "Errorf" =>
    LET n == Len(call.argsAndOptions) - TrailingOptions(call.argsAndOptions)
        h0 == SubSeq(heap, 1, Len(heap) - 2)
        hf == Append(h0, FmtErrorf(h0, call.message, SubSeq(call.argsAndOptions, 1, n)))
    IN  /\ Error(heap, ret) = Error(hf, Len(hf))
        /\ \A target \in Ptrs(h0) : Is(heap, ret, target) = Is(hf, Len(hf), target)
        /\ Fields(heap[ret]) = FieldsOfOptions(call.argsAndOptions, n + 1)

C7_Witness ==
  /\ call.op = "Errorf"
  /\ Len(call.argsAndOptions) = 2
  /\ call.argsAndOptions[1].t = "error"
  /\ call.argsAndOptions[2].t = "Option"
  /\ heap[ret - 1].kind = "wrapError"
  /\ Is(heap, ret, call.argsAndOptions[1].p)
  /\ Len(Fields(heap[ret])) = 1

(* C8: Errorf whose format embeds exactly one error operand via %w returns a   *)
(* fields-only node that reaches the operand when the operand's chain carries  *)
(* a snapshot; it captures a snapshot when the operand carries none or the     *)
(* format has no %w.                                                           *)
C8_ErrorfCaptureRule ==
  call.op = "Errorf" =>
    LET n == Len(call.argsAndOptions) - TrailingOptions(call.argsAndOptions)
        args == SubSeq(call.argsAndOptions, 1, n)
        h0 == SubSeq(heap, 1, Len(heap) - 2)
        w == doPrintf(h0, call.message, args, 1, 0, <<>>, <<>>).wrappedErrs
        ops == errorOperands(args, w, 1)
    IN  /\ (Len(w) = 1 /\ Len(ops) = 1 /\ StackCount(heap, ops[1]) >= 1)
             => (heap[ret].kind = "wrapped" /\ InChain(heap, ret, ops[1]))
        /\ (Len(w) = 0 \/ (Len(w) = 1 /\ Len(ops) = 1 /\ StackCount(heap, ops[1]) = 0))
             => heap[ret].kind = "stacked"

(* the fields Log delivered, in order *)
RECURSIVE LoggedFields(_, _)
LoggedFields(calls, i) ==
  IF i > Len(calls) THEN <<>>
  ELSE (IF calls[i].m \notin {"SetStackTrace", "Log"}
        THEN <<[Key |-> calls[i].key, Value |-> calls[i].value]>> ELSE <<>>)
       \o LoggedFields(calls, i + 1)

(* the key: value lines of a verbose text from token i on (the message comes    *)
(* first and is skipped by the caller); a frame line has no ": "                 *)
RECURSIVE TextFields(_, _)
TextFields(t, i) ==
  IF i > Len(t) THEN <<>>
  ELSE IF t[i] = "\n" /\ i + 3 <= Len(t) /\ t[i + 2] = ": "
  THEN <<[Key |-> t[i + 1], Value |-> t[i + 3]]>> \o TextFields(t, i + 4)
  ELSE TextFields(t, i + 1)

(* the fields attached along the chain, outermost node first *)
RECURSIVE ChainFields(_, _)
ChainFields(h, err) ==
  IF err = nil THEN <<>>
  ELSE (IF h[err].kind \in {"wrapped", "stacked"}
        THEN [i \in 1..Len(Fields(h[err])) |->
                [Key |-> Fields(h[err])[i].Key, Value |-> Fields(h[err])[i].Value]]
        ELSE <<>>)
       \o ChainFields(h, Unwrap(h, err))

(* C9: Log and the verbose formatter deliver the fields of the chain outermost *)
(* node first, each node's fields in the order given, none dropped, duplicated *)
(* or reordered.                                                               *)
C9_FieldsInChainOrder ==
  /\ (call.op = "Log" /\ call.err # nil)
       => LoggedFields(logger, 1) = ChainFields(heap, call.err)
  /\ call.op = "Sprintf"
       => TextFields(text, Len(Error(heap, call.err)) + 1) = ChainFields(heap, call.err)

AllNil(errs) == \A i \in 1..Len(errs) : errs[i] = nil

(* C10: Join returns nil, and allocates nothing, when its argument list is     *)
(* empty or holds only nil values.                                             *)
C10_JoinOfNothingIsNil ==
  [][(call'.op = "Join" /\ AllNil(call'.errs)) => (ret' = nil /\ heap' = heap)]_vars

C10_Witness ==
  /\ call.op = "Join" /\ Len(call.errs) >= 2 /\ AllNil(call.errs) /\ ret = nil

(* the texts of the non-nil members of errs, in order, a newline between two *)
RECURSIVE NewlineJoined(_, _, _)
NewlineJoined(h, errs, started) ==
  IF errs = <<>> THEN <<>>
  ELSE IF Head(errs) = nil THEN NewlineJoined(h, Tail(errs), started)
  ELSE (IF started THEN <<"\n">> ELSE <<>>)
       \o Error(h, Head(errs)) \o NewlineJoined(h, Tail(errs), TRUE)

(* C11: the message of Join(errs...) is the messages of the non-nil members,   *)
(* in argument order, separated by one newline, with no leading or trailing    *)
(* newline; nil members contribute nothing.                                    *)
C11_JoinMessage ==
  (call.op = "Join" /\ ~AllNil(call.errs))
    => Error(heap, ret) = NewlineJoined(heap, call.errs, FALSE)

C11_Witness ==
  /\ call.op = "Join" /\ Len(call.errs) = 3
  /\ call.errs[1] # nil /\ call.errs[2] = nil /\ call.errs[3] # nil
  /\ Error(heap, call.errs[1]) # Error(heap, call.errs[3])
  /\ heap[ret].kind = "stacked" /\ heap[Unwrap(heap, ret)].kind = "joinError"

(* err is what a Join of two or more errors returned *)
IsJoinResult(h, err) ==
  /\ err # nil
  /\ h[err].kind = "stacked"
  /\ h[Unwrap(h, err)].kind = "joinError"

(* C12: Join(errs...) matches (Is) every non-nil member of errs, and so does   *)
(* the result of wrapping the Join result again with Wrap.                     *)
C12_JoinMatchesMembers ==
  /\ (call.op = "Join" /\ ret # nil)
       => \A i \in 1..Len(call.errs) :
            call.errs[i] # nil => Is(heap, ret, call.errs[i])
  /\ (call.op = "Wrap" /\ IsJoinResult(heap, call.err))
       => LET members == heap[Unwrap(heap, call.err)].errs
          IN  \A i \in 1..Len(members) : Is(heap, ret, members[i])

C12_Witness ==
  /\ call.op = "Wrap" /\ IsJoinResult(heap, call.err)
  /\ heap[ret].kind = "wrapped"
  /\ Len(heap[Unwrap(heap, call.err)].errs) >= 2
  /\ Len(call.options) >= 1

(* the non-nil members of the argument list of the last Join *)
JoinMembers == SelectSeq(call.errs, LAMBDA e : e # nil)

(* the call site of the last Join: Join names it by the heap size before the call *)
JoinSite == IF ret = JoinMembers[1] THEN Len(heap) + 1 ELSE Len(heap)

(* message and Is targets of Join(e1) are those of e1 *)
JoinOneLikeMember ==
  LET e1 == JoinMembers[1]
      before == IF ret = e1 THEN Len(heap) ELSE Len(heap) - 1
  IN  /\ Error(heap, ret) = Error(heap, e1)
      /\ \A target \in 1..before : Is(heap, ret, target) = Is(heap, e1, target)

(* C13 as stated: Join(e1) has the message and the Is targets of e1, and its   *)
(* chain carries a snapshot captured at the Join call site, distinct from any  *)
(* snapshot e1 carries.                                                        *)
C13_JoinOneOwnSnapshot ==
  (call.op = "Join" /\ Len(JoinMembers) = 1) =>
    /\ JoinOneLikeMember
    /\ ExposedStack(heap, ret) =
         [carried |-> TRUE, stack |-> newStack(0, CallStack(JoinSite))]
    /\ ExposedStack(heap, ret) # ExposedStack(heap, JoinMembers[1])

(* C13 amended: Join(e1) has the message and the Is targets of e1; when the    *)
(* chain of e1 holds no library node the result carries a snapshot captured at *)
(* the Join call site, otherwise Join returns e1 itself and captures nothing.  *)
C13_JoinOneAmended ==
  (call.op = "Join" /\ Len(JoinMembers) = 1) =>
    /\ JoinOneLikeMember
    /\ IF isWrapper(heap, JoinMembers[1])
       THEN ret = JoinMembers[1]
       ELSE /\ ret = Len(heap) /\ ret # JoinMembers[1]
            /\ ExposedStack(heap, ret) =
                 [carried |-> TRUE, stack |-> newStack(0, CallStack(JoinSite))]

C13_Witness ==
  /\ call.op = "Join" /\ Len(call.errs) = 3 /\ Len(JoinMembers) = 1
  /\ call.errs[2] # nil
  /\ heap[call.errs[2]].kind = "wrapped"
  /\ ret = call.errs[2]

(* C14: Join with exactly one non-nil member adds no join layer: a member      *)
(* whose chain carries a snapshot is returned as it is; any other member is    *)
(* wrapped in one node with no fields that carries a snapshot captured at the  *)
(* Join call site.                                                             *)
C14_JoinOneNoLayer ==
  (call.op = "Join" /\ Len(JoinMembers) = 1) =>
    IF StackCount(heap, JoinMembers[1]) >= 1
    THEN ret = JoinMembers[1]
    ELSE /\ ret = Len(heap) /\ ret # JoinMembers[1]
         /\ heap[ret] = stacked([wrapped |-> JoinMembers[1], fields |-> <<>>],
                                newStack(0, CallStack(JoinSite)))

(* C15: Join with two or more non-nil members captures a snapshot at the Join  *)
(* call site whether or not a member carries one; the chain it returns is the  *)
(* outer node and the join node, with exactly one snapshot, and a later Wrap   *)
(* of the result captures no further snapshot.                                 *)
C15_JoinManyCaptures ==
  /\ (call.op = "Join" /\ Len(JoinMembers) >= 2) =>
       /\ ret = Len(heap)
       /\ heap[ret] = stacked([wrapped |-> ret - 1, fields |-> <<>>],
                              newStack(0, CallStack(Len(heap) - 1)))
       /\ heap[ret - 1] = joinError(JoinMembers)
       /\ Chain(heap, ret) = <<ret, ret - 1>>
       /\ StackCount(heap, ret) = 1
  /\ (call.op = "Wrap" /\ IsJoinResult(heap, call.err)) =>
       /\ heap[ret].kind = "wrapped"
       /\ StackCount(heap, ret) = 1
       /\ ExposedStack(heap, ret) = ExposedStack(heap, call.err)

C15_Witness ==
  /\ call.op = "Join" /\ Len(JoinMembers) >= 2
  /\ \E i \in 1..Len(JoinMembers) : StackCount(heap, JoinMembers[i]) >= 1

(* the error directly below a node that has exactly one: the node a library  *)
(* node was built over, the operand of a fmt wrapError                        *)
Below(h, p) ==
  CASE h[p].kind \in {"wrapped", "stacked"} -> Inner(h[p])
    [] h[p].kind = "wrapError" -> h[p].err
    [] OTHER -> nil

(* the nodes from err down to, and without, the first node that holds several *)
(* errors or none                                                             *)
RECURSIVE AboveJoin(_, _)
AboveJoin(h, err) ==
  IF err = nil \/ h[err].kind \in {"joinError", "wrapErrors"} THEN <<>>
  ELSE <<err>> \o AboveJoin(h, Below(h, err))

(* the join node found by going down from err, nil when there is none *)
RECURSIVE JoinNodeOf(_, _)
JoinNodeOf(h, err) ==
  IF err = nil THEN nil
  ELSE IF h[err].kind = "joinError" THEN err
  ELSE JoinNodeOf(h, Below(h, err))

NodeFields(h, p) ==
  IF h[p].kind \in {"wrapped", "stacked"}
  THEN [i \in 1..Len(Fields(h[p])) |->
          [Key |-> Fields(h[p])[i].Key, Value |-> Fields(h[p])[i].Value]]
  ELSE <<>>

(* the fields and the frames of a sequence of nodes, in order *)
RECURSIVE FieldsOfNodes(_, _, _)
FieldsOfNodes(h, nodes, i) ==
  IF i > Len(nodes) THEN <<>>
  ELSE NodeFields(h, nodes[i]) \o FieldsOfNodes(h, nodes, i + 1)

RECURSIVE FramesOfNodes(_, _, _)
FramesOfNodes(h, nodes, i) ==
  IF i > Len(nodes) THEN <<>>
  ELSE (IF h[nodes[i]].kind = "stacked" THEN h[nodes[i]].stack ELSE <<>>)
       \o FramesOfNodes(h, nodes, i + 1)

(* the frames Log delivered, in order *)
RECURSIVE LoggedFrames(_, _)
LoggedFrames(calls, i) ==
  IF i > Len(calls) THEN <<>>
  ELSE (IF calls[i].m = "SetStackTrace" THEN calls[i].trace ELSE <<>>)
       \o LoggedFrames(calls, i + 1)

(* the frame lines of a verbose text from token i on: a newline and one token  *)
(* that no ": " follows                                                        *)
RECURSIVE TextFrames(_, _)
TextFrames(t, i) ==
  IF i >= Len(t) THEN <<>>
  ELSE IF t[i] = "\n" /\ i + 3 <= Len(t) /\ t[i + 2] = ": " THEN TextFrames(t, i + 4)
  ELSE IF t[i] = "\n" THEN <<t[i + 1]>> \o TextFrames(t, i + 2)
  ELSE TextFrames(t, i + 1)

IsPrefix(s, t) == Len(s) <= Len(t) /\ SubSeq(t, 1, Len(s)) = s

C17_JoinMemberFieldsExposed ==
  (call.op \in {"Log", "Marshal"} /\ call.err # nil /\ IsJoinResult(heap, call.err)) =>
    LET j == heap[JoinNodeOf(heap, call.err)]
    IN  /\ \A i \in 1..Len(j.errs) :
             \A k \in 1..Len(ChainFields(heap, j.errs[i])) :
               LET f == ChainFields(heap, j.errs[i])[k]
               IN  /\ call.op = "Log" =>
                        \E c \in 1..Len(LoggedFields(logger, 1)) : LoggedFields(logger, 1)[c] = f
                   /\ call.op = "Marshal" =>
                        (f.Key \in DOMAIN json /\ json[f.Key] = JSONString(<<f.Value>>))
        /\ call.op = "Log" => LoggedFrames(logger, 1) = heap[call.err].stack
        /\ call.op = "Marshal" =>
             json["stackTrace"] = StackTraceMarshalJSON(heap[call.err].stack)

(* C18: whatever the keys of the fields of the chain are, the JSON object has  *)
(* the message of the outermost error under "error" and the frames of the      *)
(* chain's snapshot, in capture order, under "stackTrace".                     *)
C18_JSONErrorAndStackTrace ==
  call.op = "Marshal" =>
    /\ "error" \in DOMAIN json
    /\ json["error"] = JSONString(Error(heap, call.err))
    /\ StackCount(heap, call.err) >= 1 =>
         /\ "stackTrace" \in DOMAIN json
         /\ json["stackTrace"] = StackTraceMarshalJSON(ExposedStack(heap, call.err).stack)

(* the fields of every node of the chain that implements LoggableError,       *)
(* outermost node first                                                        *)
RECURSIVE ChainLoggableFields(_, _)
ChainLoggableFields(h, err) ==
  IF err = nil THEN <<>>
  ELSE (IF Implements(h[err].kind, "LoggableError")
        THEN [i \in 1..Len(LoggableFields(h[err])) |->
                [Key |-> LoggableFields(h[err])[i].Key, Value |-> LoggableFields(h[err])[i].Value]]
        ELSE <<>>)
       \o ChainLoggableFields(h, Unwrap(h, err))

DistinctKeys(fields) ==
  /\ \A i, j \in 1..Len(fields) : fields[i].Key = fields[j].Key => i = j
  /\ \A i \in 1..Len(fields) : fields[i].Key \notin {"error", "stackTrace"}

(* the fields of a JSON object: its members other than the message and the     *)
(* snapshot, each with the text of its value                                   *)
JSONFields(data) ==
  {[Key |-> k, Value |-> data[k].v[1]] : k \in DOMAIN data \ {"error", "stackTrace"}}

(* C19: the JSON object of a library error has every field of every node of    *)
(* its chain, library node or error type of the caller, whether the outermost  *)
(* node carries the snapshot or not; when the keys are distinct its fields are  *)
(* the fields Log delivers for the same error.                                 *)
C19_JSONHasEveryField ==
  call.op = "Marshal" =>
    LET fields == ChainLoggableFields(heap, call.err)
        logged == LoggedFields(LogCalls(heap, call.err), 1)
    IN  /\ \A i \in 1..Len(fields) : fields[i].Key \in DOMAIN json
        /\ DistinctKeys(fields) =>
             JSONFields(json) = {logged[i] : i \in 1..Len(logged)}

FieldKeys == {"k1", "error", "action", "userID"}

(* the values the node at position i of the chain attaches under key k *)
ValuesAt(h, c, i, k) ==
  IF Implements(h[c[i]].kind, "LoggableError")
  THEN {LoggableFields(h[c[i]])[a].Value :
          a \in {b \in 1..Len(LoggableFields(h[c[i]])) : LoggableFields(h[c[i]])[b].Key = k}}
  ELSE {}

(* C20: when nodes at two positions of the chain attach a field under the same *)
(* key, the JSON object has under that key the value attached at the outermost *)
(* of the nodes that use the key.                                              *)
C20_OuterValueKept ==
  call.op = "Marshal" =>
    LET c == Chain(heap, call.err)
    IN  \A k \in FieldKeys :
          \A i, j \in 1..Len(c) :
            (/\ i < j
             /\ ValuesAt(heap, c, i, k) # {}
             /\ ValuesAt(heap, c, j, k) # {}
             /\ \A o \in 1..(i - 1) : ValuesAt(heap, c, o, k) = {})
              => /\ k \in DOMAIN json
                 /\ \E v \in ValuesAt(heap, c, i, k) : json[k].v = <<v>>

SharedKey(h, err, k) ==
  \E i, j \in 1..Len(Chain(h, err)) :
    i < j /\ ValuesAt(h, Chain(h, err), i, k) # {} /\ ValuesAt(h, Chain(h, err), j, k) # {}

(* the value of the last field of a sequence that has key k *)
RECURSIVE LastKeyed(_, _)
LastKeyed(fields, k) ==
  IF fields[Len(fields)].Key = k THEN fields[Len(fields)].Value
  ELSE LastKeyed(SubSeq(fields, 1, Len(fields) - 1), k)

(* C20 as amended: when nodes at two positions of the chain attach a field     *)
(* under the same key, the JSON object has under that key the value written    *)
(* last: from a fields-only outermost node every node's fields are written     *)
(* outermost first, so the value of the innermost node that uses the key is    *)
(* kept; from a snapshot-carrying outermost node only that node's own fields   *)
(* are written.                                                                *)
C20_LastWrittenKept ==
  call.op = "Marshal" =>
    \A k \in FieldKeys :
      SharedKey(heap, call.err, k) =>
        IF heap[call.err].kind = "wrapped"
        THEN /\ k \in DOMAIN json
             /\ json[k].v = <<LastKeyed(ChainLoggableFields(heap, call.err), k)>>
        ELSE ValuesAt(heap, Chain(heap, call.err), 1, k) # {} =>
               /\ k \in DOMAIN json
               /\ json[k].v = <<LastKeyed(NodeFields(heap, call.err), k)>>

C20_Witness ==
  /\ call.op = "Marshal"
  /\ heap[call.err].kind = "wrapped"
  /\ \E i, j \in 1..Len(Chain(heap, call.err)) :
       /\ i < j
       /\ ValuesAt(heap, Chain(heap, call.err), i, "action") = {"v"}
       /\ ValuesAt(heap, Chain(heap, call.err), j, "action") = {"DoSomething"}
  /\ json["action"] = JSONString(<<"DoSomething">>)

(* an outermost node that carries the snapshot and shares a key with the       *)
(* caller's error below it                                                     *)
C20_WitnessStacked ==
  /\ call.op = "Marshal"
  /\ heap[call.err].kind = "stacked"
  /\ SharedKey(heap, call.err, "action")
  /\ json["action"] = JSONString(<<"v">>)

(* the fields, as attached, of every node of the chain that implements        *)
(* LoggableError, outermost node first                                         *)
RECURSIVE ChainFieldValues(_, _)
ChainFieldValues(h, err) ==
  IF err = nil THEN <<>>
  ELSE (IF Implements(h[err].kind, "LoggableError") THEN LoggableFields(h[err]) ELSE <<>>)
       \o ChainFieldValues(h, Unwrap(h, err))

UnsupportedField(f) == f.type = "Value" /\ Unsupported(f.Value)

WrittenFields(h, err) ==
  IF h[err].kind = "wrapped" THEN ChainFieldValues(h, err) ELSE Fields(h[err])

C22_UnknownFrame ==
  call.frame = ZeroFrame =>
    /\ call.op = "MarshalTextFrame" => text = <<"unknown">>
    /\ call.op = "MarshalFrame" =>
         (jsonErr = NoError /\ DOMAIN json = {"function"} /\ json["function"] = <<"unknown">>)

(* the total skip count of a sequence of options *)
RECURSIVE TotalSkip(_)
TotalSkip(options) ==
  IF options = <<>> THEN 0
  ELSE (CASE Head(options).op = "SkipCaller" -> 1
          [] Head(options).op = "SkipCallers" -> Head(options).skip
          [] OTHER -> 0)
       + TotalSkip(Tail(options))

(* the sum of the arguments of the options at the positions in idx *)
RECURSIVE SumSkips(_, _)
SumSkips(options, idx) ==
  IF idx = {} THEN 0
  ELSE LET i == CHOOSE x \in idx : TRUE
       IN  options[i].skip + SumSkips(options, idx \ {i})

Min(a, b) == IF a < b THEN a ELSE b
Max(a, b) == IF a > b THEN a ELSE b

Captured == call.op \in {"Wrap", "Errorf"} /\ ret # nil /\ heap[ret].kind = "stacked"

(* C23: a capturing call made d frames deep with a skip count s >= 0 records   *)
(* min(32, max(0, d - s)) frames, innermost first: the frames of the caller    *)
(* from the one s frames out of the call site on.                              *)
C23_FramesRecorded ==
  Captured =>
    LET d == call.depth
        sk == TotalSkip(call.options)
        st == heap[ret].stack
        cs == CallStackOfDepth(Len(heap) - (IF call.op = "Errorf" THEN 1 ELSE 0), d)
    IN  /\ Len(st) = Min(32, Max(0, d - sk))
        /\ \A i \in 1..Len(st) : st[i] = cs[sk + i]

C23_Witness ==
  /\ Captured
  /\ call.depth - TotalSkip(call.options) > 32
  /\ TotalSkip(call.options) >= 1
  /\ Len(heap[ret].stack) = 32

C23_WitnessEmpty ==
  /\ Captured
  /\ call.depth >= 1
  /\ TotalSkip(call.options) > call.depth
  /\ heap[ret].stack = <<>>

(* C24: the first frame of a captured snapshot is the frame of the caller that *)
(* lies as many frames out of the call site as the SkipCaller options of the   *)
(* call number plus the sum of the arguments of its SkipCallers options,       *)
(* whatever the order of the options and the fields among them; without a      *)
(* skip option it is the call site.                                            *)
C24_FirstFrameShifted ==
  (Captured /\ heap[ret].stack # <<>>) =>
    LET one == Cardinality({i \in 1..Len(call.options) : call.options[i].op = "SkipCaller"})
        many == {i \in 1..Len(call.options) : call.options[i].op = "SkipCallers"}
        site == Len(heap) - (IF call.op = "Errorf" THEN 1 ELSE 0)
    IN  /\ heap[ret].stack[1] = <<site, 1 + one + SumSkips(call.options, many)>>
        /\ (one = 0 /\ many = {}) => heap[ret].stack[1] = <<site, 1>>

C24_Witness ==
  /\ Captured
  /\ Len(call.options) = 3
  /\ call.options[1].op = "SkipCallers"
  /\ call.options[2].op = "String"
  /\ call.options[3].op = "SkipCallers"
  /\ call.depth = 2 * SmallSkip + 1
  /\ heap[ret].stack = <<<<Len(heap), 2 * SmallSkip + 1>>>>

(* C25: Log of a non-nil error calls logger.Log once, as the last call, after  *)
(* the setter calls for every field and every snapshot of the chain, with the  *)
(* message of the error it was given; an error without fields and snapshot     *)
(* yields that call alone, and Log(nil, logger) calls nothing.                 *)
C25_LogCommitsLast ==
  call.op = "Log" =>
    IF call.err = nil THEN logger = <<>>
    ELSE LET n == Len(logger)
             fields == ChainFieldValues(heap, call.err)
         IN  /\ n >= 1
             /\ logger[n].m = "Log"
             /\ logger[n].message = Error(heap, call.err)
             /\ \A i \in 1..(n - 1) : logger[i].m # "Log"
             /\ n - 1 = Len(fields) + StackCount(heap, call.err)
             /\ (fields = <<>> /\ StackCount(heap, call.err) = 0) => n = 1

C25_Witness ==
  /\ call.op = "Log" /\ call.err # nil
  /\ Len(ChainFieldValues(heap, call.err)) >= 2
  /\ StackCount(heap, call.err) = 1
  /\ Len(logger) >= 4
  /\ logger[Len(logger)].m = "Log"

C25_WitnessAlone ==
  /\ call.op = "Log" /\ call.err # nil
  /\ Len(logger) = 1

(* C26: the verbose text of a library error is its message, then the key:      *)
(* value lines of every field of the chain in traversal order, then the frame  *)
(* lines; no field line follows a frame line, whichever kind of node is        *)
(* outermost.                                                                  *)
C26_VerboseLayout ==
  call.op = "Sprintf" =>
    LET head == Error(heap, call.err) \o LogFieldsText(ChainFieldValues(heap, call.err), 1)
    IN  /\ IsPrefix(head, text)
        /\ TextFields(text, Len(head) + 1) = <<>>

(* what an operation produces when it runs alone *)
Alone(h, op, err) ==
  CASE op = "Log" -> LogCalls(h, err)
    [] op = "Sprintf" -> Format(h, err, TRUE)
    [] op = "Marshal" -> jsonMarshal(MarshalJSON(h, err)).bytes

(* C27: while goroutines run Log, Format and MarshalJSON on one chain, in any  *)
(* interleaving, no node of the chain changes, and every operation that has    *)
(* finished has produced what it produces when it runs alone.                  *)
C27_ReadersLeaveChain ==
  [][/\ heap' = heap
     /\ \A t \in Readers :
          readers'.th[t].pc = "done" =>
            readers'.sink[t] = Alone(heap, readers'.th[t].op, readers'.th[t].err)]_vars

C27_Witness ==
  /\ heap[ret].kind = "wrapped"
  /\ readers.th[1].pc = "done" /\ readers.th[2].pc = "done"
  /\ readers.th[1].op = "Log" /\ readers.th[2].op = "Log"
  /\ Len(readers.sink[1]) >= 4

(* the first error of the sequence err, Unwrap(err), ... that can be asserted *)
(* to T or has an As method that accepts a *T; nil when there is none         *)
FirstMatch(h, err, T) ==
  LET c == Chain(h, err)
      hits == {i \in 1..Len(c) : TypeAssert(h, c[i], T) \/ AsMethod(h, c[i], T).ok}
  IN  IF hits = {} THEN nil
      ELSE c[CHOOSE i \in hits : \A j \in hits : i <= j]

(* C28 as stated: As[T](err) returns the first error of the single-Unwrap     *)
(* sequence that has type T or an As method accepting *T, and (zero, false)   *)
(* when there is none; IsOfType[T](err) is the boolean of As[T](err).         *)
C28_AsReturnsFirstMatch ==
  call.op = "As" =>
    LET e == IF call.err = nil THEN nil ELSE FirstMatch(heap, call.err, call.T)
    IN  /\ found.as = (IF e = nil THEN [t |-> Zero, ok |-> FALSE]
                                  ELSE [t |-> ErrorOf(e), ok |-> TRUE])
        /\ found.is = found.as.ok

(* C28 (amended): As[T](err) returns (v, true) for the first error e of the   *)
(* sequence err, Unwrap(err), ... that has type T or an As method accepting   *)
(* *T, where v is e when e has type T and otherwise the value the As method   *)
(* of e stored in the target; (zero, false) when there is none or err is nil; *)
(* members of a Join are never examined; IsOfType[T](err) is the boolean of   *)
(* As[T](err).                                                                *)
C28_AsReturnsFirstMatchOrStored ==
  call.op = "As" =>
    LET e == IF call.err = nil THEN nil ELSE FirstMatch(heap, call.err, call.T)
    IN  /\ found.as = (IF e = nil THEN [t |-> Zero, ok |-> FALSE]
                       ELSE IF TypeAssert(heap, e, call.T) THEN [t |-> ErrorOf(e), ok |-> TRUE]
                       ELSE [t |-> AsMethod(heap, e, call.T).t, ok |-> TRUE])
        /\ found.is = found.as.ok

(* As[errorT] of a library node over a poser: the As method of the poser answers *)
C28_Witness ==
  /\ call.op = "As" /\ call.T = "errorT"
  /\ call.err # nil /\ heap[call.err].kind \in {"wrapped", "stacked"}
  /\ found.as.ok /\ found.as.t = Made("errorT{poser}")

(* As[errorT] of a Join that has an errorT member finds nothing *)
C28_WitnessJoin ==
  /\ call.op = "As" /\ call.T = "errorT"
  /\ call.err # nil /\ IsJoinResult(heap, call.err)
  /\ \E i \in 1..Len(heap[Unwrap(heap, call.err)].errs) :
       heap[heap[Unwrap(heap, call.err)].errs[i]].kind = "errorT"
  /\ ~found.as.ok /\ ~found.is

(* the characters that follow the % of the directives of a format, in order: *)
(* a % and the character after it make one directive                          *)
RECURSIVE Directives(_, _)
Directives(message, k) ==
  IF k >= Len(message) THEN <<>>
  ELSE IF message[k] = "%" THEN <<message[k + 1]>> \o Directives(message, k + 2)
  ELSE Directives(message, k + 1)

(* the operand of the first %w: %% takes no operand, every other directive one *)
FirstWOperand(message, args) ==
  LET taking == SelectSeq(Directives(message, 1), LAMBDA c : c # "%")
      ws == {i \in 1..Len(taking) : taking[i] = "w"}
      first == IF ws = {} THEN 0 ELSE CHOOSE i \in ws : \A j \in ws : i <= j
  IN  IF first = 0 \/ first > Len(args) THEN nil
      ELSE IF args[first].t = "error" THEN args[first].p ELSE nil

C29_WitnessCounted ==
  /\ call.op = "Errorf" /\ call.message = <<"%", "v", "%", "w">>
  /\ Len(call.argsAndOptions) = 2
  /\ call.argsAndOptions[1].t = "error" /\ ~isWrapper(heap, call.argsAndOptions[1].p)
  /\ call.argsAndOptions[2].t = "error" /\ isWrapper(heap, call.argsAndOptions[2].p)
  /\ heap[ret].kind = "wrapped"

(* the fields the options of one call stand for, in order *)
OptionFields(options) ==
  LET fieldOptions == SelectSeq(options, LAMBDA o : o.op \in {"String", "Value"})
  IN  [i \in 1..Len(fieldOptions) |->
         IF fieldOptions[i].op = "String"
         THEN StringField(fieldOptions[i].key, fieldOptions[i].value)
         ELSE ValueField(fieldOptions[i].key, fieldOptions[i].value)]

(* the options of the call that call describes *)
OptionsOf(c) ==
  IF c.op = "Wrap" THEN c.options ELSE splitArgsAndOptions(c.argsAndOptions).options

(* C30: the node a Wrap or Errorf call returns carries exactly the fields of  *)
(* the options of that call, in order, and a snapshot shifted by the skips of *)
(* that call only, whatever options earlier calls were given; the call leaves *)
(* every node constructed earlier as it was.                                  *)
C30_FreshOptions ==
  [][(call'.op \in {"Wrap", "Errorf"} /\ ret' # nil) =>
       LET options == OptionsOf(call')
           site == Len(heap') - (IF call'.op = "Errorf" THEN 1 ELSE 0)
       IN  /\ Fields(heap'[ret']) = OptionFields(options)
           /\ heap'[ret'].kind = "stacked" =>
                heap'[ret'].stack = SubSeq(CallStack(site), 1 + TotalSkip(options), CallDepth)
           /\ \A p \in Ptrs(heap) : heap'[p] = heap[p]]_vars

(* a second Wrap given the Option values of the first *)
C30_Witness ==
  /\ call.op = "Wrap" /\ call.err # nil
  /\ call.options = <<SkipCaller, String("k1", "v")>>
  /\ heap[ret].kind = "stacked" /\ heap[ret].stack = <<<<ret, 2>>>>
  /\ Fields(heap[ret]) = <<StringField("k1", "v")>>
  /\ \E p \in Ptrs(heap) \ {ret} :
       /\ heap[p].kind = "stacked" /\ heap[p].stack = <<<<p, 2>>>>
       /\ Fields(heap[p]) = <<StringField("k1", "v")>>

====
